---- MODULE Spec2Model ----
(***************************************************************************)
(* Model of the Google Maps review scraper (src/src/google-maps-scraper.ts) *)
(* scraper -> validateParams -> fetchReviews(buildApiUrl) ->                *)
(* paginateReviews -> parseReviews, one run per session.                    *)
(*                                                                         *)
(* JavaScript values are modelled as follows:                               *)
(*   - an optional value (null / undefined / missing index) is a sequence   *)
(*     of length at most one: None is <<>>, Some(x) is <<x>>;               *)
(*   - a string that the code inspects character by character (the          *)
(*     continuation token) is a sequence of one-character strings;          *)
(*   - a value whose dynamic type the code tests (pages, clean) is a        *)
(*     record tagged with its typeof.                                       *)
(***************************************************************************)
EXTENDS Integers, Sequences, FiniteSets, TLC

None == <<>>
Some(x) == <<x>>

(***************************************************************************)
(* Bounds of the model.                                                     *)
(***************************************************************************)
\* the upstream serves at most this many pages to one run
MaxUpstreamPages == 3

\* the scraper invocations the host process may have in progress at once
NumSessions == 2
Sessions == 1..NumSessions

(***************************************************************************)
(* Place URLs.  A URL is the result of new URL(url): whether it parses, its *)
(* host, its pathname split at "/" (after the leading one) and the segments *)
(* of the whole string split at "!" (after the first "!").  A "!"-segment   *)
(* is [tag, tok, wordchars]: tag "1s" marks a place-token segment, tok is   *)
(* what follows the tag and wordchars tells whether tok is non-empty and    *)
(* made only of [a-zA-Z0-9_:].                                              *)
(***************************************************************************)
Seg(tag, tok, wordchars) == [tag |-> tag, tok |-> tok, wordchars |-> wordchars]

MkUrl(parseable, host, path, bang) ==
    [parseable |-> parseable, host |-> host, path |-> path, bang |-> bang]

\* https://www.google.com/maps/place/X/data=!4m5!1sA!8m2
UrlPlace ==
    MkUrl(TRUE, "www.google.com", <<"maps", "place", "X", "data=">>,
          <<Seg("4m", "5", TRUE), Seg("1s", "A", TRUE), Seg("8m", "2", TRUE)>>)

\* the shape of the URL of example.ts: a first 1s segment that holds a "+",
\* then the real token
UrlExample ==
    MkUrl(TRUE, "www.google.com", <<"maps", "place", "X", "data=">>,
          <<Seg("2m", "1", TRUE), Seg("1s", "Bay+Vil", FALSE), Seg("3m", "6", TRUE),
            Seg("1s", "B", TRUE), Seg("8m", "2", TRUE)>>)

\* two markers separated by another segment
UrlTwoMarkers ==
    MkUrl(TRUE, "www.google.com", <<"maps", "place", "X", "data=">>,
          <<Seg("1s", "A", TRUE), Seg("3m", "6", TRUE), Seg("1s", "B", TRUE),
            Seg("8m", "2", TRUE)>>)

\* two 1s segments that share their "!": !1sA!1sB!8m2
UrlAdjacentMarkers ==
    MkUrl(TRUE, "www.google.com", <<"maps", "place", "X", "data=">>,
          <<Seg("1s", "A", TRUE), Seg("1s", "B", TRUE), Seg("8m", "2", TRUE)>>)

\* a 1s segment at the very end of the string has no closing "!"
UrlOpenMarker ==
    MkUrl(TRUE, "www.google.com", <<"maps", "place", "X", "data=">>,
          <<Seg("4m", "5", TRUE), Seg("1s", "A", TRUE)>>)

\* a place page URL that carries no place token
UrlNoMarker ==
    MkUrl(TRUE, "www.google.com", <<"maps", "place", "X">>, <<>>)

\* https://www.google.com/maps/search/?q=x
UrlSearch ==
    MkUrl(TRUE, "www.google.com", <<"maps", "search", "?q=x">>, <<>>)

\* a search URL that nevertheless carries a marker
UrlSearchMarker ==
    MkUrl(TRUE, "www.google.com", <<"maps", "search", "data=">>,
          <<Seg("1s", "A", TRUE), Seg("8m", "2", TRUE)>>)

\* https://maps.google.com/maps/place/X/data=!1sA!8m2
UrlOtherHost ==
    MkUrl(TRUE, "maps.google.com", <<"maps", "place", "X", "data=">>,
          <<Seg("1s", "A", TRUE), Seg("8m", "2", TRUE)>>)

\* https://www.google.com/maps/place (no trailing slash)
UrlPlaceBare ==
    MkUrl(TRUE, "www.google.com", <<"maps", "place">>, <<>>)

\* a string new URL() cannot parse
UrlGarbage ==
    MkUrl(FALSE, "", <<>>, <<Seg("1s", "A", TRUE), Seg("8m", "2", TRUE)>>)

\* parsedUrl.host !== "www.google.com" || !parsedUrl.pathname.startsWith("/maps/place/")
IsPlacePage(url) ==
    /\ url.parseable
    /\ url.host = "www.google.com"
    /\ Len(url.path) >= 3
    /\ url.path[1] = "maps"
    /\ url.path[2] = "place"

(***************************************************************************)
(* Sort modes.  SortEnum is an object literal, so SortEnum[key] finds the   *)
(* four own keys and, through the prototype chain, the members of           *)
(* Object.prototype (functions, hence truthy).                              *)
(***************************************************************************)
SortEnum ==
    [relevent |-> 1, newest |-> 2, highest_rating |-> 3, lowest_rating |-> 4]

ObjectPrototypeKeys ==
    {"constructor", "toString", "valueOf", "hasOwnProperty"}

\* SortEnum[sort_type]
SortLookup(sort_type) ==
    IF sort_type \in DOMAIN SortEnum
    THEN [t |-> "number", n |-> SortEnum[sort_type]]
    ELSE IF sort_type \in ObjectPrototypeKeys
         THEN [t |-> "function", n |-> 0]
         ELSE [t |-> "undefined", n |-> 0]

\* JavaScript truthiness of a SortLookup result
Truthy(v) ==
    \/ v.t = "function"
    \/ v.t = "number" /\ v.n # 0

(***************************************************************************)
(* The page bound: "max", a number, or some other string.                   *)
(***************************************************************************)
PagesStr(s) == [t |-> "string", s |-> s, n |-> 0]
PagesNum(n) == [t |-> "number", s |-> "", n |-> n]

\* the numeric strings the model uses, with their Number() value
NumericStrings ==
    [x \in {"1", "2"} |-> IF x = "1" THEN 1 ELSE 2]

\* Number(pages): [nan, n]
ToNumber(pages) ==
    IF pages.t = "number" THEN [nan |-> FALSE, n |-> pages.n]
    ELSE IF pages.s \in DOMAIN NumericStrings
         THEN [nan |-> FALSE, n |-> NumericStrings[pages.s]]
         ELSE [nan |-> TRUE, n |-> 0]

\* a test that takes a bound that is not positive for no bound
IsMaxOrNotPositive(pages) ==
    \/ pages.t = "string" /\ pages.s = "max"
    \/ pages.t = "number" /\ pages.n <= 0

IsMax(pages) == pages.t = "string" /\ pages.s = "max"

\* the clean flag with its typeof
CleanBool(b) == [t |-> "boolean", b |-> b]
CleanStr == [t |-> "string", b |-> TRUE]

(***************************************************************************)
(* validateParams: "ok" or the message of the Error it throws.              *)
(***************************************************************************)
validateParams(url, sort_type, pages, clean) ==
    IF ~url.parseable THEN "TypeError: Invalid URL"
    ELSE IF ~IsPlacePage(url) THEN "Invalid URL: url"
    ELSE IF ~Truthy(SortLookup(sort_type)) THEN "Invalid sort type"
    ELSE IF ~IsMax(pages) /\ ToNumber(pages).nan THEN "Invalid pages value"
    ELSE IF clean.t # "boolean" THEN "Invalid value for 'clean'"
    ELSE "ok"

(***************************************************************************)
(* buildApiUrl.  url.matchAll(/!1s([a-zA-Z0-9_:]+)!/g): a "!"-segment       *)
(* matches when its tag is 1s, its token is made of word characters and     *)
(* another "!" follows it; a match consumes that "!", so the segment right  *)
(* after a match cannot match.                                              *)
(***************************************************************************)
RECURSIVE MatchFrom(_, _, _)
MatchFrom(bang, i, opened) ==
    IF i > Len(bang) THEN <<>>
    ELSE IF /\ opened
            /\ bang[i].tag = "1s"
            /\ bang[i].wordchars
            /\ i < Len(bang)
         THEN <<bang[i].tok>> \o MatchFrom(bang, i + 1, FALSE)
         ELSE MatchFrom(bang, i + 1, TRUE)

matchAll(url) == MatchFrom(url.bang, 1, TRUE)

\* the request URL: only its varying parts
ApiUrl(placeId, so, pg, sq) == [placeId |-> placeId, so |-> so, pg |-> pg, sq |-> sq]

\* None when it throws Error("Invalid URL")
buildApiUrl(url, so, pg, sq) ==
    LET m == matchAll(url) IN
    IF Len(m) = 0 THEN None
    ELSE Some(ApiUrl(IF Len(m) >= 2 THEN m[2] ELSE m[1], so, pg, sq))

(***************************************************************************)
(* Raw review records.  The endpoint's record is a nested positional array; *)
(* the model keeps the index paths parseReviews reads, each as an optional  *)
(* value (None where the array holds null or is too short):                 *)
(*   r0                 review[0]                                           *)
(*   r1                 review[1]                                           *)
(*   r1.published       review[1][2]        r1.last_edited  review[1][3]    *)
(*   r1.author          review[1][4][5]     (None also when review[1][4]    *)
(*                                           is null)                       *)
(*   r1.author.url      review[1][4][5][2], then its element [0]            *)
(*   r1.source          review[1][13], then its element [0]                 *)
(*   r2                 review[2]                                           *)
(*   r2.rating          review[2][0], then its element [0]                  *)
(*   r2.images          review[2][2]                                        *)
(*   r2.lang            review[2][14], then its element [0]                 *)
(*   r2.text            review[2][15], then [0], then [0]                   *)
(*   r3                 review[3]                                           *)
(*   r3.reply           review[3][14], then [0], then [0]                   *)
(*   r3.published       review[3][1]        r3.last_edited  review[3][2]    *)
(* and for an image of review[2][2]:                                        *)
(*   i0                 image[0]                                            *)
(*   pic                image[1][6]: url [0], size [2] = (width, height)    *)
(*   geo                image[1][8][0]: long [1], lat [2]                   *)
(*   info               image[1][21][3]: caption [5], friendly [7], each    *)
(*                      an optional array read at [0]                       *)
(***************************************************************************)
RawAuthor(name, profile_url, url, id) ==
    [name |-> name, profile_url |-> profile_url, url |-> url, id |-> id]

RawMeta(published, last_edited, author, source) ==
    [published |-> published, last_edited |-> last_edited,
     author |-> author, source |-> source]

RawContent(rating, images, lang, text) ==
    [rating |-> rating, images |-> images, lang |-> lang, text |-> text]

RawReply(reply, published, last_edited) ==
    [reply |-> reply, published |-> published, last_edited |-> last_edited]

RawImage(i0, pic, geo, info) ==
    [i0 |-> i0, pic |-> pic, geo |-> geo, info |-> info]

RawReview(r0, r1, r2, r3) == [r0 |-> r0, r1 |-> r1, r2 |-> r2, r3 |-> r3]

\* x || null for a string / for a number
OrNullStr(o) == IF o = None \/ o = Some("") THEN None ELSE o
OrNullNum(o) == IF o = None \/ o = Some(0) THEN None ELSE o

\* a?.[0] where a is an optional one-element array
Elem0(a) == IF a = None THEN None ELSE a[1]

(***************************************************************************)
(* The callback of reviews.map in parseReviews, for one image and for one   *)
(* record.  [ok |-> FALSE] stands for the TypeError thrown by an index      *)
(* into null/undefined that has no optional chaining.                       *)
(***************************************************************************)
Thrown == [ok |-> FALSE, val |-> None]
Returned(v) == [ok |-> TRUE, val |-> Some(v)]

\* lines 131-144
parseImage(image) ==
    IF image.pic = None \/ image.geo = None \/ image.info = None
    THEN Thrown
    ELSE IF image.pic[1].size = None THEN Thrown
    ELSE Returned(
        [id |-> image.i0,
         url |-> image.pic[1].url,
         size |-> [width |-> image.pic[1].size[1][1],
                   height |-> image.pic[1].size[1][2]],
         location |-> [friendly |-> Elem0(image.info[1].friendly),
                       lat |-> image.geo[1].lat,
                       long |-> image.geo[1].long],
         caption |-> OrNullStr(Elem0(image.info[1].caption))])

\* a decoder that normalises "no images": review[2][2]?.length ? ... : null
parseImagesNormalised(images) ==
    IF images = None \/ images = Some(<<>>) THEN Returned(None)
    ELSE LET imgs == images[1]
             each == [i \in 1..Len(imgs) |-> parseImage(imgs[i])] IN
         IF \E i \in 1..Len(imgs) : ~each[i].ok THEN Thrown
         ELSE Returned(Some([i \in 1..Len(imgs) |-> each[i].val[1]]))

\* review[2][2]?.map(...) || null
parseImages(images) ==
    IF images = None THEN Returned(None)
    ELSE LET imgs == images[1]
             each == [i \in 1..Len(imgs) |-> parseImage(imgs[i])] IN
         IF \E i \in 1..Len(imgs) : ~each[i].ok THEN Thrown
         ELSE Returned(Some([i \in 1..Len(imgs) |-> each[i].val[1]]))

\* a test of the response branch alone: !!review[3]
hasResponseShallow(review) == review.r3 # None

\* line 113: !!review[3]?.[14]?.[0]?.[0]
hasResponse(review) ==
    /\ review.r3 # None
    /\ OrNullStr(Elem0(Elem0(review.r3[1].reply))) # None

\* lines 112-153
parseReview(review) ==
    IF review.r1 = None \/ review.r2 = None THEN Thrown
    ELSE LET r1 == review.r1[1]
             r2 == review.r2[1] IN
    IF r1.author = None THEN Thrown
    ELSE IF r1.author[1].url = None THEN Thrown
    ELSE IF r1.source = None THEN Thrown
    ELSE IF r2.rating = None THEN Thrown
    ELSE LET images == parseImages(r2.images) IN
    IF ~images.ok THEN Thrown
    ELSE Returned(
        [review_id |-> review.r0,
         time |-> [published |-> r1.published, last_edited |-> r1.last_edited],
         author |-> [name |-> r1.author[1].name,
                     profile_url |-> r1.author[1].profile_url,
                     url |-> r1.author[1].url[1],
                     id |-> r1.author[1].id],
         review |-> [rating |-> r2.rating[1],
                     text |-> OrNullStr(Elem0(Elem0(r2.text))),
                     language |-> OrNullStr(Elem0(r2.lang))],
         images |-> images.val[1],
         source |-> r1.source[1],
         response |->
            IF hasResponse(review)
            THEN Some([text |-> OrNullStr(Elem0(Elem0(review.r3[1].reply))),
                       time |-> [published |-> OrNullNum(review.r3[1].published),
                                 last_edited |-> OrNullNum(review.r3[1].last_edited)]])
            ELSE None])

\* parseReviews: reviews.map stops at the first record whose callback
\* throws, and the exception leaves parseReviews
parseReviews(reviews) ==
    LET each == [i \in 1..Len(reviews) |-> parseReview(reviews[i])] IN
    IF \E i \in 1..Len(reviews) : ~each[i].ok THEN Thrown
    ELSE Returned([i \in 1..Len(reviews) |-> each[i].val[1]])

\* the number of records the callback was invoked on
decoderCalls(reviews) ==
    LET bad == {i \in 1..Len(reviews) : ~parseReview(reviews[i]).ok} IN
    IF bad = {} THEN Len(reviews)
    ELSE CHOOSE i \in bad : \A j \in bad : i <= j

(***************************************************************************)
(* Responses of the endpoint.  A body is the sequence of pieces             *)
(* textData.split(")]}'") yields: a body that begins with the               *)
(* anti-hijacking prefix splits into the empty string followed by the       *)
(* remainder.  A piece is the empty string, a JSON text (with the value it  *)
(* parses to) or text JSON.parse rejects.  The parsed top-level value is    *)
(* null (None) or a page [tok, recs]: tok is index 1, recs index 2.         *)
(***************************************************************************)
Quote == "\""

Page(tok, recs) == [tok |-> tok, recs |-> recs]

PieceEmpty == [kind |-> "empty", val |-> None]
PieceJunk == [kind |-> "junk", val |-> None]
PieceJson(v) == [kind |-> "json", val |-> v]

Response(status, body) == [status |-> status, body |-> body]

\* str.replace(/"/g, "")
StripQuotes(str) == SelectSeq(str, LAMBDA c : c # Quote)

\* data[1] as it came, quotes left in
nextPageOfQuoted(page) == page.tok

\* data[1]?.replace(/"/g, "")
nextPageOf(page) == IF page.tok = None THEN None ELSE Some(StripQuotes(page.tok[1]))

\* truthiness of an optional string
TruthyStr(o) == o # None /\ o[1] # <<>>

\* fetchReviews after the await: [err, data]; err is "" when it returns
Failed(msg) == [err |-> msg, data |-> None]
Fetched(v) == [err |-> "", data |-> v]

fetchReviews(resp) ==
    IF resp.status = "rejected" THEN Failed("TypeError: fetch failed")
    ELSE IF resp.status # "ok" THEN Failed("Failed to fetch reviews")
    ELSE IF Len(resp.body) < 2 THEN Failed("SyntaxError")
    ELSE IF resp.body[2].kind # "json" THEN Failed("SyntaxError")
    ELSE Fetched(resp.body[2].val)

(***************************************************************************)
(* What a run is called with and what the upstream may answer.              *)
(***************************************************************************)
FullAuthor == Some(RawAuthor(Some("Ann"), Some("p"), Some(Some("u")), Some("a1")))

FullMeta == Some(RawMeta(Some(1700), Some(1701), FullAuthor, Some(Some("Google"))))

FullContent == Some(RawContent(Some(Some(5)), None, Some(Some("en")), Some(Some(Some("good")))))

RA == RawReview(Some("ra"), FullMeta, FullContent, None)
RB == RawReview(Some("rb"), FullMeta, FullContent, None)
RC == RawReview(Some("rc"), FullMeta, FullContent, None)

\* a record without author identity, and one without id
RNoAuthor ==
    RawReview(Some("rx"), Some(RawMeta(Some(1700), Some(1701), None, Some(Some("Google")))),
              FullContent, None)
RNoId == RawReview(None, FullMeta, FullContent, None)

RunUrls == {UrlPlace, UrlNoMarker, UrlSearch, UrlOtherHost, UrlGarbage}

RunSortTypes == {"newest", "oldest", "constructor"}

RunPages ==
    {PagesStr("max"), PagesStr("abc"), PagesStr("1")}
        \cup {PagesNum(n) : n \in -1..MaxUpstreamPages}

RunClean == {CleanBool(TRUE), CleanBool(FALSE), CleanStr}

RunRecs ==
    {None, Some(<<>>), Some(<<RA, RB>>), Some(<<RC>>), Some(<<RNoAuthor>>), Some(<<RNoId>>)}

\* the tokens of a page that has a successor, and of one that has none
MoreTokens == {Some(<<"A">>), Some(<<Quote, "B", Quote>>)}
EndTokens == {None, Some(<<>>), Some(<<Quote, Quote>>)}

Tokens(last) == IF last THEN EndTokens ELSE EndTokens \cup MoreTokens

RunResponses(last) ==
    {Response("ok", <<PieceEmpty, PieceJson(Some(Page(t, r)))>>) :
        t \in Tokens(last), r \in RunRecs}
    \cup {Response("ok", <<PieceJunk, PieceJson(Some(Page(t, Some(<<RC>>))))>>) :
            t \in Tokens(last)}
    \cup {Response("ok", <<PieceJson(Some(Page(None, Some(<<RC>>))))>>),
          Response("ok", <<PieceEmpty, PieceJunk>>),
          Response("ok", <<PieceEmpty, PieceJson(None)>>),
          Response("ok", <<PieceEmpty>>),
          Response("error", <<>>),
          Response("rejected", <<>>)}

\* what the run's history keeps of a response
Shape(resp) ==
    LET f == fetchReviews(resp) IN
    [status |-> resp.status,
     prefixed |-> Len(resp.body) >= 2 /\ resp.body[1].kind = "empty",
     parsed |-> f.err = "",
     isPage |-> f.err = "" /\ f.data # None,
     tok |-> f.err = "" /\ f.data # None /\ TruthyStr(nextPageOf(f.data[1])),
     token |-> IF f.err = "" /\ f.data # None /\ f.data[1].tok # None
               THEN StripQuotes(f.data[1].tok[1]) ELSE <<>>,
     recs |-> IF f.err = "" /\ f.data # None /\ f.data[1].recs # None
              THEN Len(f.data[1].recs[1]) ELSE -1]

\* the records a response carries (none when it is not a page)
RecordsOf(resp) ==
    LET f == fetchReviews(resp) IN
    IF f.err = "" /\ f.data # None /\ f.data[1].recs # None
    THEN f.data[1].recs[1] ELSE <<>>

DelayMs == 1000

(***************************************************************************)
(* State.  Every variable is a function of the session: the locals of one   *)
(* invocation of scraper / paginateReviews, what it has sent and received.  *)
(*   pc            where the invocation is suspended: "idle" (not called),  *)
(*                 "awaitFirst" (line 200), "awaitNext" (line 173),         *)
(*                 "sleeping" (line 177), "done" (returned)                 *)
(*   args          url and options of the call                              *)
(*   requests      the API URLs passed to fetch, in order                   *)
(*   reviews, nextPage, currentPage   the locals of paginateReviews         *)
(*   waited        milliseconds this run has spent in setTimeout since its  *)
(*                 last response arrived                                    *)
(*   result        what scraper returned                                    *)
(*   consoleError  what the catch block passed to console.error             *)
(*   decoded       how many records the parseReviews callback was run on    *)
(*   history       the shape of every response received                     *)
(*   served        the records of every page received, concatenated         *)
(* and, for the specifications that exercise one function alone,            *)
(*   probe         the input of the call (a raw record for parseReviews,    *)
(*                 the arguments for validateParams and buildApiUrl) and    *)
(*                 what the function made of it                             *)
(***************************************************************************)
VARIABLES pc, args, requests, reviews, nextPage, currentPage, waited,
          result, consoleError, decoded, history, served, probe

vars == <<pc, args, requests, reviews, nextPage, currentPage, waited,
          result, consoleError, decoded, history, served, probe>>

Args(url, sort_type, search_query, pages, clean) ==
    [url |-> url, sort_type |-> sort_type, search_query |-> search_query,
     pages |-> pages, clean |-> clean]

\* the defaults of lines 189-194, with no url yet
NoArgs == Args(UrlGarbage, "relevent", "", PagesStr("max"), CleanBool(FALSE))

Result(t, n, raw, clean) == [t |-> t, n |-> n, raw |-> raw, clean |-> clean]
Pending == Result("pending", 0, <<>>, <<>>)
Undefined == Result("undefined", 0, <<>>, <<>>)
NumberValue(n) == Result("number", n, <<>>, <<>>)
RawList(list) == Result("raw", 0, list, <<>>)
CleanList(list) == Result("clean", 0, <<>>, list)

Probe(stage, raw, out) == [stage |-> stage, raw |-> raw, out |-> out]

NoSessions ==
    /\ pc = [s \in Sessions |-> "idle"]
    /\ args = [s \in Sessions |-> NoArgs]
    /\ requests = [s \in Sessions |-> <<>>]
    /\ reviews = [s \in Sessions |-> <<>>]
    /\ nextPage = [s \in Sessions |-> None]
    /\ currentPage = [s \in Sessions |-> 0]
    /\ waited = [s \in Sessions |-> 0]
    /\ result = [s \in Sessions |-> Pending]
    /\ consoleError = [s \in Sessions |-> None]
    /\ decoded = [s \in Sessions |-> 0]
    /\ history = [s \in Sessions |-> <<>>]
    /\ served = [s \in Sessions |-> <<>>]

Init ==
    /\ NoSessions
    /\ probe = Probe("off", RA, Thrown)

\* scraper returns res; err is what the catch block logged, ndec the number
\* of records the decoder was run on
Settle(s, res, err, ndec) ==
    /\ pc' = [pc EXCEPT ![s] = "done"]
    /\ result' = [result EXCEPT ![s] = res]
    /\ consoleError' = [consoleError EXCEPT ![s] = err]
    /\ decoded' = [decoded EXCEPT ![s] = @ + ndec]

\* a catch that swallows the failure of a fetch and lets the run wait for
\* the page again
CatchRetry(s, e) ==
    IF requests[s] = <<>>
    THEN Settle(s, Undefined, Some(e), 0)
    ELSE /\ pc' = pc
         /\ UNCHANGED <<result, consoleError, decoded>>

\* lines 209-212: catch (e) { console.error(e); return; }
Catch(s, e) == Settle(s, Undefined, Some(e), 0)

\* return clean ? await parseReviews(list) : list  (lines 181 and 205)
ReturnReviews(s, clean, list) ==
    IF clean.b
    THEN LET p == parseReviews(list) IN
         IF p.ok
         THEN Settle(s, CleanList(p.val[1]), None, decoderCalls(list))
         ELSE Settle(s, Undefined, Some("TypeError"), decoderCalls(list))
    ELSE Settle(s, RawList(list), None, 0)

\* fetchReviews up to its await: the request leaves
Issue(s, a, pg, next) ==
    /\ requests' = [requests EXCEPT ![s] =
            Append(@, buildApiUrl(a.url, SortLookup(a.sort_type), pg, a.search_query)[1])]
    /\ pc' = [pc EXCEPT ![s] = next]
    /\ UNCHANGED <<result, consoleError, decoded>>

\* the response arrives: time since the last response starts anew
Receive(s, resp) ==
    /\ waited' = [waited EXCEPT ![s] = 0]
    /\ history' = [history EXCEPT ![s] = Append(@, Shape(resp))]
    /\ served' = [served EXCEPT ![s] = @ \o RecordsOf(resp)]

\* the loop test with a strict comparison
whileConditionStrict(np, pages, cp) ==
    /\ TruthyStr(np)
    /\ \/ IsMax(pages)
       \/ cp < ToNumber(pages).n

\* line 171: nextPage && (pages === "max" || currentPage <= Number(pages))
whileCondition(np, pages, cp) ==
    /\ TruthyStr(np)
    /\ \/ IsMax(pages)
       \/ cp <= ToNumber(pages).n

\* the loop with its accumulator kept in a variable of the module, which
\* every invocation would write
LoopHeadShared(s, rev, np, cp) ==
    /\ reviews' = [t \in Sessions |-> rev]
    /\ nextPage' = [nextPage EXCEPT ![s] = np]
    /\ currentPage' = [currentPage EXCEPT ![s] = cp]
    /\ IF whileCondition(np, args[s].pages, cp)
       THEN Issue(s, args[s], np[1], "awaitNext")
       ELSE /\ ReturnReviews(s, args[s].clean, rev)
            /\ UNCHANGED requests

\* lines 171-173 and 181: the loop test with the locals rev, np, cp, then
\* the next fetch or the return
LoopHead(s, rev, np, cp) ==
    /\ reviews' = [reviews EXCEPT ![s] = rev]
    /\ nextPage' = [nextPage EXCEPT ![s] = np]
    /\ currentPage' = [currentPage EXCEPT ![s] = cp]
    /\ IF whileCondition(np, args[s].pages, cp)
       THEN Issue(s, args[s], np[1], "awaitNext")
       ELSE /\ ReturnReviews(s, args[s].clean, rev)
            /\ UNCHANGED requests

(***************************************************************************)
(* scraper(url, options) up to its first await, lines 189-200.              *)
(***************************************************************************)
Scraper(s) ==
    /\ pc[s] = "idle"
    /\ \E url \in RunUrls, sort_type \in RunSortTypes, pages \in RunPages,
          clean \in RunClean :
        LET a == Args(url, sort_type, "", pages, clean)
            v == validateParams(url, sort_type, pages, clean) IN
        /\ args' = [args EXCEPT ![s] = a]
        /\ IF v # "ok"
           THEN Catch(s, v) /\ UNCHANGED requests
           ELSE IF buildApiUrl(url, SortLookup(sort_type), <<>>, "") = None
                THEN Catch(s, "Invalid URL") /\ UNCHANGED requests
                ELSE Issue(s, a, <<>>, "awaitFirst")
    /\ UNCHANGED <<reviews, nextPage, currentPage, waited, history, served, probe>>

(***************************************************************************)
(* The first page arrives: fetchReviews lines 103-108, scraper lines        *)
(* 202-208, paginateReviews lines 167-173.                                  *)
(***************************************************************************)
FirstPage(s) ==
    /\ pc[s] = "awaitFirst"
    /\ \E resp \in RunResponses(Len(requests[s]) >= MaxUpstreamPages) :
        LET f == fetchReviews(resp) IN
        /\ Receive(s, resp)
        /\ IF f.err # ""
           THEN /\ Catch(s, f.err)
                /\ UNCHANGED <<requests, reviews, nextPage, currentPage>>
           ELSE IF \/ f.data = None
                   \/ f.data[1].recs = None
                   \/ Len(f.data[1].recs[1]) = 0
                THEN /\ Settle(s, NumberValue(0), None, 0)
                     /\ UNCHANGED <<requests, reviews, nextPage, currentPage>>
                ELSE IF \/ ~TruthyStr(f.data[1].tok)
                        \/ args[s].pages = PagesNum(1)
                     THEN /\ ReturnReviews(s, args[s].clean, f.data[1].recs[1])
                          /\ UNCHANGED <<requests, reviews, nextPage, currentPage>>
                     ELSE LoopHead(s, f.data[1].recs[1], nextPageOf(f.data[1]), 2)
    /\ UNCHANGED <<args, probe>>

(***************************************************************************)
(* A later page arrives: fetchReviews lines 103-108, paginateReviews lines  *)
(* 174-177.                                                                 *)
(***************************************************************************)
NextPage(s) ==
    /\ pc[s] = "awaitNext"
    /\ \E resp \in RunResponses(Len(requests[s]) >= MaxUpstreamPages) :
        LET f == fetchReviews(resp) IN
        /\ Receive(s, resp)
        /\ IF f.err # ""
           THEN /\ Catch(s, f.err)
                /\ UNCHANGED <<reviews, nextPage>>
           ELSE IF f.data = None \/ f.data[1].recs = None
                THEN /\ Catch(s, "TypeError")
                     /\ UNCHANGED <<reviews, nextPage>>
                ELSE LET rev == reviews[s] \o f.data[1].recs[1]
                         np == nextPageOf(f.data[1]) IN
                     /\ reviews' = [reviews EXCEPT ![s] = rev]
                     /\ nextPage' = [nextPage EXCEPT ![s] = np]
                     /\ IF ~TruthyStr(np)
                        THEN ReturnReviews(s, args[s].clean, rev)
                        ELSE /\ pc' = [pc EXCEPT ![s] = "sleeping"]
                             /\ UNCHANGED <<result, consoleError, decoded>>
    /\ UNCHANGED <<args, requests, currentPage, probe>>

(***************************************************************************)
(* The timer of line 177 fires: lines 178, 171-173, 181.                    *)
(***************************************************************************)
Timer(s) ==
    /\ pc[s] = "sleeping"
    /\ waited' = [waited EXCEPT ![s] = @ + DelayMs]
    /\ LoopHead(s, reviews[s], nextPage[s], currentPage[s] + 1)
    /\ UNCHANGED <<args, history, served, probe>>

\* one invocation of scraper
Next ==
    \/ Scraper(1)
    \/ FirstPage(1)
    \/ NextPage(1)
    \/ Timer(1)

Spec == Init /\ [][Next]_vars

(***************************************************************************)
(* Vocabulary of the properties.                                            *)
(***************************************************************************)
\* the run of session s has returned
Done(s) == pc[s] = "done"

\* the run of session s was let through to its first fetch
Started(s) == requests[s] # <<>>

\* every response so far was a page (status ok, parsed, not null)
AllPages(s) == \A i \in DOMAIN history[s] : history[s][i].isPage

\* the page bound is the positive integer k
BoundIs(s, k) == args[s].pages = PagesNum(k) /\ k >= 1

\* the result is the sequence list, raw or decoded record by record
IsRawOf(res, list) == res.t = "raw" /\ res.raw = list

IsCleanOf(res, list) ==
    /\ res.t = "clean"
    /\ Len(res.clean) = Len(list)
    /\ \A i \in DOMAIN list :
        /\ parseReview(list[i]).ok
        /\ res.clean[i] = parseReview(list[i]).val[1]

(***************************************************************************)
(* C1: between any two successive page fetches of a run, the first and the  *)
(* second included, the run waits at least the fixed interval: a fetch      *)
(* other than the first is in flight only after DelayMs have been waited    *)
(* since the previous response arrived.                                     *)
(***************************************************************************)
C1_DelayBetweenFetches ==
    \A s \in Sessions : pc[s] = "awaitNext" => waited[s] >= DelayMs

(***************************************************************************)
(* C2: page-bound enforcement.  While every page received carries a         *)
(* continuation token and at least one record, and the page bound is the    *)
(* positive integer K, the run never issues more than K fetches, does not   *)
(* return before K pages are received, and once K pages are received it     *)
(* issues no further fetch: it has made exactly K fetches when it returns.  *)
(***************************************************************************)
EndlessSoFar(s) ==
    \A i \in DOMAIN history[s] :
        history[s][i].isPage /\ history[s][i].tok /\ history[s][i].recs >= 1

C2_PageBound ==
    \A s \in Sessions : \A k \in 1..MaxUpstreamPages :
        (Started(s) /\ BoundIs(s, k) /\ EndlessSoFar(s)) =>
            /\ Len(requests[s]) <= k
            /\ Done(s) => Len(history[s]) = k /\ Len(requests[s]) = k
            /\ Len(history[s]) = k => pc[s] \in {"sleeping", "done"}

\* a run bounded to two pages has returned after two token-bearing pages
C2_Witness ==
    /\ Done(1)
    /\ BoundIs(1, 2)
    /\ EndlessSoFar(1)
    /\ Len(history[1]) = 2
    /\ Len(requests[1]) = 2

(***************************************************************************)
(* C3: pagination termination, on runs with raw output whose first page     *)
(* has at least one record.  When every response is a page and the bound is *)
(* "max" or at least the number of pages the upstream can have, the run     *)
(* returns only after a page without continuation token, one fetch per page *)
(* received, and its result is the records of all those pages.              *)
(***************************************************************************)
Unbounded(s) ==
    \/ IsMax(args[s].pages)
    \/ \E k \in MaxUpstreamPages..(MaxUpstreamPages + 1) : BoundIs(s, k)

C3_Termination ==
    \A s \in Sessions :
        (/\ Done(s)
         /\ Started(s)
         /\ args[s].clean = CleanBool(FALSE)
         /\ Unbounded(s)
         /\ AllPages(s)
         /\ history[s] # <<>>
         /\ history[s][1].recs >= 1) =>
            /\ ~history[s][Len(history[s])].tok
            /\ Len(requests[s]) = Len(history[s])
            /\ IsRawOf(result[s], served[s])

(***************************************************************************)
(* C4: when the first page has zero records (sequence absent or empty) the  *)
(* run returns an empty sequence of reviews, the decoder is not run and no  *)
(* second fetch is made.                                                    *)
(***************************************************************************)
FirstPageEmpty(s) ==
    /\ history[s] # <<>>
    /\ history[s][1].isPage
    /\ history[s][1].recs <= 0

IsEmptySequence(res) ==
    \/ res.t = "raw" /\ res.raw = <<>>
    \/ res.t = "clean" /\ res.clean = <<>>

C4_EmptyFirstPage ==
    \A s \in Sessions :
        FirstPageEmpty(s) =>
            /\ Done(s)
            /\ IsEmptySequence(result[s])
            /\ decoded[s] = 0
            /\ Len(requests[s]) = 1

(***************************************************************************)
(* C5: the result of a successful run (one that returns a value) preserves  *)
(* upstream order: raw, it is the concatenation in fetch order of the       *)
(* record sequences of every page fetched; clean, it is the decoding of     *)
(* that concatenation element by element.                                   *)
(***************************************************************************)
Successful(s) == Done(s) /\ result[s].t # "undefined"

C5_OrderPreserved ==
    \A s \in Sessions :
        Successful(s) =>
            IF args[s].clean.b
            THEN IsCleanOf(result[s], served[s])
            ELSE IsRawOf(result[s], served[s])

(***************************************************************************)
(* C6: no network request is issued by a run whose inputs are to be         *)
(* rejected: a URL that is not a www.google.com /maps/place/ page, a sort   *)
(* mode outside the enumerated set, a page bound neither "max" nor numeric, *)
(* a clean flag that is not a boolean, a URL without place-token marker.    *)
(***************************************************************************)
ToBeRejected(a) ==
    \/ ~IsPlacePage(a.url)
    \/ a.sort_type \notin DOMAIN SortEnum
    \/ ~IsMax(a.pages) /\ ToNumber(a.pages).nan
    \/ a.clean.t # "boolean"
    \/ matchAll(a.url) = <<>>

C6_NoFetchWhenRejected ==
    \A s \in Sessions :
        (pc[s] # "idle" /\ ToBeRejected(args[s])) => requests[s] = <<>>

(***************************************************************************)
(* C7: every error raised during a run reaches the caller of scraper as a   *)
(* failure that identifies it: when an error was raised, what scraper       *)
(* hands back is that error (a rejection carrying it), not a value.         *)
(***************************************************************************)
C7_ErrorsPropagate ==
    \A s \in Sessions :
        (Done(s) /\ consoleError[s] # None) => result[s].t = "rejected"

(***************************************************************************)
(* C8: a response body, on any page, that does not begin with the           *)
(* anti-hijacking prefix, or whose remainder is not valid JSON, aborts the  *)
(* run: it is the last response, no fetch follows it and the run returns no *)
(* records.                                                                 *)
(***************************************************************************)
BadBody(h) == h.status = "ok" /\ (~h.prefixed \/ ~h.parsed)

C8_BadBodyAborts ==
    \A s \in Sessions : \A i \in DOMAIN history[s] :
        BadBody(history[s][i]) =>
            /\ i = Len(history[s])
            /\ Len(requests[s]) = i
            /\ Done(s)
            /\ result[s].t = "undefined"

(***************************************************************************)
(* C9: record-level decode anomaly.  When clean output is requested and     *)
(* exactly one accumulated record lacks a required field (id or author      *)
(* identity), the run still returns, and returns the decoding of every      *)
(* other record, in order.                                                  *)
(***************************************************************************)
LacksRequired(review) ==
    \/ review.r0 = None
    \/ review.r1 = None
    \/ review.r1 # None /\ review.r1[1].author = None

\* pagination went through: every response was accumulated
Accumulated(s) ==
    /\ Done(s)
    /\ history[s] # <<>>
    /\ history[s][1].recs >= 1
    /\ \A i \in DOMAIN history[s] : history[s][i].isPage /\ history[s][i].recs >= 0

C9_AnomalyDoesNotAbort ==
    \A s \in Sessions :
        (/\ Accumulated(s)
         /\ args[s].clean = CleanBool(TRUE)
         /\ Cardinality({i \in DOMAIN served[s] : LacksRequired(served[s][i])}) = 1) =>
            IsCleanOf(result[s], SelectSeq(served[s], LAMBDA r : ~LacksRequired(r)))

(***************************************************************************)
(* The decoder alone: parseReviews applied to a list of one raw record      *)
(* drawn from the records below, every combination of present and absent    *)
(* branches.                                                                *)
(***************************************************************************)
RawPic(url, size) == [url |-> url, size |-> size]
RawGeo(lat, long) == [lat |-> lat, long |-> long]
RawInfo(friendly, caption) == [friendly |-> friendly, caption |-> caption]

Img1 ==
    RawImage(Some("i1"), Some(RawPic(Some("http://i1"), Some(<<640, 480>>))),
             Some(RawGeo(Some(37), Some(-122))),
             Some(RawInfo(Some(Some("Cafe")), Some(Some("latte")))))
Img2 ==
    RawImage(Some("i2"), Some(RawPic(Some("http://i2"), Some(<<800, 600>>))),
             Some(RawGeo(Some(38), Some(-121))),
             Some(RawInfo(None, None)))
ImgNoGeo ==
    RawImage(Some("i3"), Some(RawPic(Some("http://i3"), Some(<<800, 600>>))),
             None, Some(RawInfo(None, None)))

AuthorNoUrl == Some(RawAuthor(Some("Ann"), Some("p"), None, Some("a1")))

DecodeIds == {None, Some("r1")}

DecodeMetas ==
    {None} \cup
    {Some(RawMeta(Some(1700), Some(1701), author, source)) :
        author \in {None, FullAuthor, AuthorNoUrl},
        source \in {None, Some(Some("Google"))}}

DecodeRatings == {None, Some(None), Some(Some(5))}

DecodeImages ==
    {None, Some(<<>>), Some(<<Img1>>), Some(<<Img1, Img2>>), Some(<<ImgNoGeo>>)}

DecodeLangs == {None, Some(None), Some(Some("en"))}

DecodeTexts ==
    {None, Some(None), Some(Some(None)), Some(Some(Some(""))), Some(Some(Some("good")))}

DecodeContents ==
    {None} \cup
    {Some(RawContent(rating, images, lang, text)) :
        rating \in DecodeRatings, images \in DecodeImages,
        lang \in DecodeLangs, text \in DecodeTexts}

DecodeReplies ==
    {None,
     Some(RawReply(None, None, None)),
     Some(RawReply(Some(None), Some(1800), None)),
     Some(RawReply(Some(Some(Some(""))), Some(1800), Some(1801))),
     Some(RawReply(Some(Some(Some("thanks"))), Some(1800), None)),
     Some(RawReply(Some(Some(Some("thanks"))), Some(1800), Some(1801)))}

DecodeInputs ==
    {RawReview(r0, r1, r2, r3) :
        r0 \in DecodeIds, r1 \in DecodeMetas, r2 \in DecodeContents, r3 \in DecodeReplies}

InitDecode ==
    /\ NoSessions
    /\ probe \in {Probe("raw", r, Thrown) : r \in DecodeInputs}

\* parseReviews([[review]])
Decode ==
    /\ probe.stage = "raw"
    /\ probe' = Probe("parsed", probe.raw, parseReviews(<<probe.raw>>))
    /\ UNCHANGED <<pc, args, requests, reviews, nextPage, currentPage, waited,
                   result, consoleError, decoded, history, served>>

NextDecode == Decode

SpecDecode == InitDecode /\ [][NextDecode]_vars

(***************************************************************************)
(* C10: the decoder tolerates every absent optional branch.  For a record   *)
(* whose other branches are all present, whichever of the rating, text,     *)
(* images and response branches are absent, decoding does not fail, the     *)
(* field of each absent branch is null and the other fields are the         *)
(* upstream values.                                                         *)
(***************************************************************************)
\* everything but the four optional branches is there
OthersPresent(review) ==
    /\ review.r0 # None
    /\ review.r1 # None
    /\ review.r1[1].author \notin {None, AuthorNoUrl}
    /\ review.r1[1].source # None
    /\ review.r2 # None
    /\ review.r2[1].images \in {None, Some(<<>>), Some(<<Img1>>), Some(<<Img1, Img2>>)}

C10_OptionalBranches ==
    (probe.stage = "parsed" /\ OthersPresent(probe.raw)) =>
        LET raw == probe.raw
            out == probe.out IN
        /\ out.ok
        /\ LET review == out.val[1][1] IN
           /\ raw.r2[1].rating = None => review.review.rating = None
           /\ raw.r2[1].text = None => review.review.text = None
           /\ raw.r2[1].images = None => review.images = None
           /\ raw.r3 = None => review.response = None
           /\ review.review_id = raw.r0
           /\ review.author.id = raw.r1[1].author[1].id
           /\ review.source = raw.r1[1].source[1]
           /\ raw.r2[1].rating # None => review.review.rating = raw.r2[1].rating[1]
           /\ raw.r2[1].images # None => Len(review.images[1]) = Len(raw.r2[1].images[1])

(***************************************************************************)
(* C11: whenever the decoder returns a review, a record whose response      *)
(* marker review[3][14][0][0] is absent or empty has response = null, and   *)
(* a record with a non-empty marker has a response that carries the text    *)
(* and the published and last_edited times, each the upstream value or      *)
(* null.                                                                    *)
(***************************************************************************)
\* review[3][14][0][0], the marker, when the path to it exists
ResponseMarker(review) ==
    IF review.r3 = None THEN None
    ELSE IF review.r3[1].reply = None THEN None
    ELSE IF review.r3[1].reply[1] = None THEN None
    ELSE review.r3[1].reply[1][1]

LacksMarker(review) == ResponseMarker(review) \in {None, Some("")}

UpstreamOrNull(field, upstream) == field = None \/ field = upstream

C11_ResponseMarker ==
    (probe.stage = "parsed" /\ probe.out.ok) =>
        LET raw == probe.raw
            review == probe.out.val[1][1] IN
        /\ LacksMarker(raw) => review.response = None
        /\ ~LacksMarker(raw) =>
            /\ review.response # None
            /\ review.response[1].text = ResponseMarker(raw)
            /\ UpstreamOrNull(review.response[1].time.published, raw.r3[1].published)
            /\ UpstreamOrNull(review.response[1].time.last_edited, raw.r3[1].last_edited)

\* a decoded owner reply that was never edited
C11_Witness ==
    /\ probe.stage = "parsed"
    /\ probe.out.ok
    /\ ~LacksMarker(probe.raw)
    /\ probe.raw.r3[1].last_edited = None
    /\ probe.out.val[1][1].response # None
    /\ probe.out.val[1][1].response[1].time.last_edited = None

(***************************************************************************)
(* validateParams alone: one call on arguments drawn from the sets below.   *)
(* The sort modes tried are the keys of SortEnum, the modes the ReadMe      *)
(* documents, other spellings and the names Object.prototype carries.       *)
(***************************************************************************)
\* ReadMe.md, the values of sort_type
DocumentedSortTypes == {"relevant", "newest", "highest_rating", "lowest_rating"}

ValidateSortTypes ==
    DOMAIN SortEnum \cup DocumentedSortTypes \cup ObjectPrototypeKeys
        \cup {"relevance", "most_relevant", "oldest", ""}

ValidateUrls ==
    {UrlPlace, UrlExample, UrlTwoMarkers, UrlNoMarker, UrlSearch, UrlOtherHost,
     UrlPlaceBare, UrlGarbage}

ValidateInputs ==
    {Args(url, sort_type, "", pages, clean) :
        url \in ValidateUrls, sort_type \in ValidateSortTypes,
        pages \in RunPages, clean \in RunClean}

InitValidate ==
    /\ NoSessions
    /\ probe \in {Probe("args", a, "") : a \in ValidateInputs}

\* validateParams(url, sort_type, pages, clean), line 197
Validate ==
    /\ probe.stage = "args"
    /\ probe' = Probe("validated", probe.raw,
                      validateParams(probe.raw.url, probe.raw.sort_type,
                                     probe.raw.pages, probe.raw.clean))
    /\ UNCHANGED <<pc, args, requests, reviews, nextPage, currentPage, waited,
                   result, consoleError, decoded, history, served>>

NextValidate == Validate

SpecValidate == InitValidate /\ [][NextValidate]_vars

(***************************************************************************)
(* C12: validation accepts exactly the four documented sort modes           *)
(* (relevant, newest, highest_rating, lowest_rating) and rejects every      *)
(* other sort mode with the invalid-sort error.  The other three           *)
(* arguments are valid ones; that no request precedes a rejection is C6.    *)
(***************************************************************************)
OtherArgsValid(a) ==
    validateParams(a.url, "newest", a.pages, a.clean) = "ok"

C12_DocumentedSortTypes ==
    (probe.stage = "validated" /\ OtherArgsValid(probe.raw)) =>
        /\ probe.raw.sort_type \in DocumentedSortTypes => probe.out = "ok"
        /\ probe.raw.sort_type \notin DocumentedSortTypes =>
               probe.out = "Invalid sort type"

(***************************************************************************)
(* Two invocations of scraper at once.  Each is suspended at its awaits     *)
(* (fetch, setTimeout) and the event loop resumes either one, so their      *)
(* steps interleave in any order.  To keep the product of the two runs      *)
(* small, both are called on a valid place page with sort newest and see    *)
(* only well-formed pages of RA, RB, RC or a failed request.                *)
(***************************************************************************)
DuoSessions == {1, 2}

DuoArgs ==
    {Args(UrlPlace, "newest", "", pages, clean) :
        pages \in {PagesStr("max"), PagesNum(2)},
        clean \in {CleanBool(TRUE), CleanBool(FALSE)}}

DuoShapes ==
    {Shape(Response("ok", <<PieceEmpty, PieceJson(Some(Page(t, Some(r))))>>)) :
        t \in {None, Some(<<"A">>)}, r \in {<<>>, <<RA, RB>>, <<RC>>}}
    \cup {Shape(Response("error", <<>>))}

\* session s was called with DuoArgs and has received DuoShapes only
DuoOk(s) ==
    /\ args[s] \in DuoArgs \cup {NoArgs}
    /\ \A i \in DOMAIN history[s] : history[s][i] \in DuoShapes
    /\ \A i \in DOMAIN served[s] : served[s][i] \in {RA, RB, RC}
    /\ nextPage[s] \in {None, Some(<<"A">>)}

NextDuo ==
    \/ \E s \in DuoSessions : Scraper(s) /\ DuoOk(s)'
    \/ \E s \in DuoSessions : FirstPage(s) /\ DuoOk(s)'
    \/ \E s \in DuoSessions : NextPage(s) /\ DuoOk(s)'
    \/ \E s \in DuoSessions : Timer(s) /\ DuoOk(s)'

SpecDuo == Init /\ [][NextDuo]_vars

(***************************************************************************)
(* C14: concurrent sessions are isolated.  Whatever the interleaving, the   *)
(* accumulator, continuation token, page counter, requests and result of    *)
(* a session change only in a step of that session's own run, and that      *)
(* step is the one the run takes alone on the response it received: seen    *)
(* from one session, the run is a run of scraper by itself, so it returns   *)
(* what it returns alone against the same responses.                        *)
(***************************************************************************)
\* everything that belongs to session s
Locals(s) ==
    <<pc[s], args[s], requests[s], reviews[s], nextPage[s], currentPage[s],
      waited[s], result[s], consoleError[s], decoded[s], history[s], served[s]>>

\* a step of the run of session s
RunOf(s) == Scraper(s) \/ FirstPage(s) \/ NextPage(s) \/ Timer(s)

C14_SessionsIsolated ==
    /\ [][RunOf(1)]_(Locals(1))
    /\ [][RunOf(2)]_(Locals(2))

\* both runs are between two fetches at once, with different accumulators
C14_Witness ==
    /\ pc[1] = "sleeping"
    /\ pc[2] = "sleeping"
    /\ reviews[1] = <<RA, RB, RC>>
    /\ reviews[2] = <<RC>>
    /\ currentPage[1] = 2
    /\ currentPage[2] = 2

(***************************************************************************)
(* C15: a page after the first that carries a continuation token but no     *)
(* record sequence counts as a page of zero records: the run does not       *)
(* fail, the records accumulated so far are kept, and the run goes on to    *)
(* the delay and the loop test as after any page with a token.              *)
(***************************************************************************)
\* the latest response of session s is such a page
LaterPageWithoutRecords(s) ==
    /\ Len(history[s]) >= 2
    /\ LET h == history[s][Len(history[s])] IN
       h.isPage /\ h.tok /\ h.recs = -1

C15_AbsentRecordsLaterPage ==
    \A s \in Sessions :
        LaterPageWithoutRecords(s) =>
            /\ consoleError[s] = None
            /\ result[s] # Undefined
            /\ reviews[s] = served[s]
            /\ Len(reviews[s]) > 0

(***************************************************************************)
(* C16: pagination is strictly sequential.  A run has at most one fetch     *)
(* in flight; the fetch of page i+1 is issued only after the response of    *)
(* page i has arrived and carries exactly the continuation token of that    *)
(* response with its quotes removed; the first fetch carries the empty      *)
(* token.                                                                   *)
(***************************************************************************)
\* requests of session s that have no response yet
InFlight(s) == Len(requests[s]) - Len(history[s])

C16_Sequential ==
    \A s \in Sessions :
        /\ InFlight(s) \in {0, 1}
        /\ InFlight(s) = 1 <=> pc[s] \in {"awaitFirst", "awaitNext"}
        /\ requests[s] # <<>> => requests[s][1].pg = <<>>
        /\ \A i \in 1..(Len(requests[s]) - 1) :
            /\ history[s][i].token # <<>>
            /\ requests[s][i + 1].pg = history[s][i].token

\* the third fetch is in flight; page 1 sent its token in quotes
C16_Witness ==
    /\ pc[1] = "awaitNext"
    /\ Len(requests[1]) = 3
    /\ Len(history[1]) = 2
    /\ requests[1][2].pg = <<"B">>
    /\ requests[1][3].pg = <<"A">>

(***************************************************************************)
(* C17: the decoder runs in one final pass only.  While a run has not       *)
(* returned, no record has been decoded; a run with clean = true that       *)
(* accumulated its pages has, on return, run the decoder once on every      *)
(* accumulated record; a run with clean = false never runs the decoder      *)
(* and returns the accumulated raw records as they came.                    *)
(***************************************************************************)
C17_DecodeInFinalPass ==
    \A s \in Sessions :
        /\ ~Done(s) => decoded[s] = 0
        /\ decoded[s] <= Len(served[s])
        /\ ~args[s].clean.b =>
            /\ decoded[s] = 0
            /\ Accumulated(s) => IsRawOf(result[s], served[s])
        /\ (args[s].clean.b /\ Accumulated(s)) => decoded[s] = Len(served[s])

(***************************************************************************)
(* C18: no fetch is retried.  A response on which fetchReviews throws       *)
(* (status not ok, no prefix in the body, or text JSON.parse rejects) is    *)
(* the last event of its run: the run has returned undefined and issued no  *)
(* request after it.  Every request but the first follows a page of its     *)
(* own that carried a token, so no page is requested twice.                 *)
(***************************************************************************)
FetchFailed(h) == ~h.parsed

TokenPages(s) == {i \in DOMAIN history[s] : history[s][i].tok}

C18_NoRetry ==
    \A s \in Sessions :
        /\ \A i \in DOMAIN history[s] :
            FetchFailed(history[s][i]) =>
                /\ i = Len(history[s])
                /\ Len(requests[s]) = i
                /\ Done(s)
                /\ result[s] = Undefined
        /\ Len(requests[s]) <= 1 + Cardinality(TokenPages(s))
        /\ Len(history[s]) <= Len(requests[s])

\* the second fetch of a run failed after a first page with a token
C18_Witness ==
    /\ Done(1)
    /\ Len(requests[1]) = 2
    /\ Len(history[1]) = 2
    /\ history[1][1].tok
    /\ history[1][2].status = "error"
    /\ consoleError[1] # None

(***************************************************************************)
(* buildApiUrl alone: one call on a place page URL whose "!"-segments are   *)
(* any sequence of at most MaxSegments segments drawn from two place        *)
(* tokens, a 1s segment that holds a "+", and a segment of another kind.    *)
(***************************************************************************)
MaxSegments == 4

BuildSegments ==
    {Seg("1s", "A", TRUE), Seg("1s", "B", TRUE), Seg("1s", "Bay+Vil", FALSE),
     Seg("3m", "6", TRUE)}

BuildUrls ==
    {MkUrl(TRUE, "www.google.com", <<"maps", "place", "X", "data=">>, bang) :
        bang \in UNION {[1..n -> BuildSegments] : n \in 0..MaxSegments}}

BuildInputs ==
    {[url |-> url, so |-> SortLookup("newest"), pg |-> pg, sq |-> ""] :
        url \in BuildUrls, pg \in {<<>>, <<"A">>}}

InitBuild ==
    /\ NoSessions
    /\ probe \in {Probe("url", i, None) : i \in BuildInputs}

\* buildApiUrl(url, so, pg, sq), line 101
Build ==
    /\ probe.stage = "url"
    /\ probe' = Probe("built", probe.raw,
                      buildApiUrl(probe.raw.url, probe.raw.so, probe.raw.pg, probe.raw.sq))
    /\ UNCHANGED <<pc, args, requests, reviews, nextPage, currentPage, waited,
                   result, consoleError, decoded, history, served>>

NextBuild == Build

SpecBuild == InitBuild /\ [][NextBuild]_vars

(***************************************************************************)
(* C19: for a place URL that contains a marker !1s<token>!, buildApiUrl     *)
(* produces a request URL whose place token is the token of the second      *)
(* marker of the URL when it contains two or more markers and the token of  *)
(* its only marker otherwise; for a URL without a marker it fails.  A       *)
(* marker is a 1s segment whose token is made of the characters the         *)
(* pattern admits and that is closed by a "!".                              *)
(***************************************************************************)
\* the tokens of the markers the string contains, from the left
RECURSIVE MarkersFrom(_, _)
MarkersFrom(bang, i) ==
    IF i > Len(bang) THEN <<>>
    ELSE IF bang[i].tag = "1s" /\ bang[i].wordchars /\ i < Len(bang)
         THEN <<bang[i].tok>> \o MarkersFrom(bang, i + 1)
         ELSE MarkersFrom(bang, i + 1)

Markers(url) == MarkersFrom(url.bang, 1)

C19_PlaceToken ==
    probe.stage = "built" =>
        LET mk == Markers(probe.raw.url) IN
        IF Len(mk) = 0
        THEN probe.out = None
        ELSE /\ probe.out # None
             /\ probe.out[1].placeId = IF Len(mk) >= 2 THEN mk[2] ELSE mk[1]

(***************************************************************************)
(* C20: the decoder keeps the difference between no images and an empty     *)
(* list of images.  In the review it returns, images is null when the       *)
(* images branch review[2][2] is absent, the empty sequence (not null)      *)
(* when the branch is an empty sequence, and otherwise a sequence of the    *)
(* same length whose i-th element is made from the i-th raw image.          *)
(***************************************************************************)
C20_ImagesNullOrEmpty ==
    (probe.stage = "parsed" /\ probe.out.ok) =>
        LET branch == probe.raw.r2[1].images
            images == probe.out.val[1][1].images IN
        /\ branch = None => images = None
        /\ branch = Some(<<>>) => images = Some(<<>>)
        /\ (branch # None /\ branch # Some(<<>>)) =>
            /\ images # None
            /\ Len(images[1]) = Len(branch[1])
            /\ \A i \in DOMAIN branch[1] :
                /\ images[1][i].id = branch[1][i].i0
                /\ images[1][i].url = branch[1][i].pic[1].url

\* a record with an empty images branch was decoded
C20_Witness ==
    /\ probe.stage = "parsed"
    /\ probe.out.ok
    /\ probe.raw.r2[1].images = Some(<<>>)
    /\ probe.out.val[1][1].images = Some(<<>>)

(***************************************************************************)
(* The scrape-reviews tool of the server: the handler calls scraper with    *)
(* the sort_type and pages of the tool call and clean: true, awaits its     *)
(* result, maps the reviews to reviews with readable dates, computes the    *)
(* statistics and returns them; whatever is thrown on the way is caught     *)
(* and returned as a response with isError: true.                           *)
(***************************************************************************)
\* the enum of inputSchema.sort_type
AdvertisedSortTypes ==
    {"newest", "oldest", "most_relevant", "highest_rating", "lowest_rating"}

ToolResponse(isError, totalReviews) ==
    [isError |-> isError, totalReviews |-> totalReviews]

\* the handler after await scraper(...): parsedReviews.map exists only when
\* scraper returned an array; on the number 0 and on undefined it is a
\* TypeError, which the catch turns into the error response
scrapeReviewsHandler(res) ==
    IF res.t = "clean"
    THEN ToolResponse(FALSE, Some(Len(res.clean)))
    ELSE ToolResponse(TRUE, None)

\* the arguments the handler passes to scraper
ToolArgs(s) ==
    /\ args[s].sort_type \in AdvertisedSortTypes
    /\ args[s].pages.t = "number"
    /\ args[s].pages.n >= 1
    /\ args[s].clean = CleanBool(TRUE)

\* case "scrape-reviews" up to the first await inside scraper
CallTool(s) == Scraper(s) /\ ToolArgs(s)'

\* scraper has returned: the rest of the handler
Respond(s) ==
    /\ pc[s] = "done"
    /\ pc' = [pc EXCEPT ![s] = "responded"]
    /\ probe' = Probe("responded", result[s], scrapeReviewsHandler(result[s]))
    /\ UNCHANGED <<args, requests, reviews, nextPage, currentPage, waited,
                   result, consoleError, decoded, history, served>>

NextTool ==
    \/ CallTool(1)
    \/ FirstPage(1)
    \/ NextPage(1)
    \/ Timer(1)
    \/ Respond(1)

SpecTool == Init /\ [][NextTool]_vars

(***************************************************************************)
(* C21: a scrape-reviews call for a place whose first page has no reviews   *)
(* gets a response that is not an error and reports zero reviews.           *)
(***************************************************************************)
C21_ZeroReviewsNotAnError ==
    (probe.stage = "responded" /\ FirstPageEmpty(1)) =>
        /\ ~probe.out.isError
        /\ probe.out.totalReviews = Some(0)

(***************************************************************************)
(* C22: every sort_type the scrape-reviews tool advertises (newest,         *)
(* oldest, most_relevant, highest_rating, lowest_rating) passes             *)
(* validateParams when the other arguments are valid, so that the call      *)
(* goes on to its first fetch.                                              *)
(***************************************************************************)
C22_AdvertisedSortTypesPass ==
    (/\ probe.stage = "validated"
     /\ probe.raw.sort_type \in AdvertisedSortTypes
     /\ OtherArgsValid(probe.raw)) =>
        probe.out = "ok"

(***************************************************************************)
(* C23: a numeric page bound that is not positive.  It passes validation    *)
(* wherever the bound 1 passes, and the run then makes exactly one fetch:   *)
(* it returns on the first response, never enters the delay or a second     *)
(* fetch, and what it returns is the first page (its records as they came,  *)
(* or decoded when clean is true).                                          *)
(***************************************************************************)
NotPositiveBound(s) ==
    /\ pc[s] # "idle"
    /\ args[s].pages.t = "number"
    /\ args[s].pages.n <= 0

\* the call of session s passes validation and has a place token
LetThrough(s) ==
    /\ validateParams(args[s].url, args[s].sort_type, args[s].pages, args[s].clean) = "ok"
    /\ buildApiUrl(args[s].url, SortLookup(args[s].sort_type), <<>>, "") # None

C23_NotPositiveBound ==
    \A s \in Sessions :
        NotPositiveBound(s) =>
            /\ validateParams(args[s].url, args[s].sort_type, args[s].pages, args[s].clean)
                 = validateParams(args[s].url, args[s].sort_type, PagesNum(1), args[s].clean)
            /\ LetThrough(s) =>
                /\ Len(requests[s]) = 1
                /\ requests[s][1].pg = <<>>
                /\ pc[s] \in {"awaitFirst", "done"}
                /\ Done(s) <=> Len(history[s]) = 1
                /\ (Done(s) /\ history[s][1].isPage /\ history[s][1].recs >= 1) =>
                    /\ Len(served[s]) = history[s][1].recs
                    /\ IF args[s].clean.b
                       THEN \/ IsCleanOf(result[s], served[s])
                            \/ result[s] = Undefined /\ ~parseReviews(served[s]).ok
                       ELSE IsRawOf(result[s], served[s])

\* bound 0: the first page came with a token and was returned at once
C23_Witness ==
    /\ Done(1)
    /\ args[1].pages = PagesNum(0)
    /\ Len(requests[1]) = 1
    /\ history[1][1].tok
    /\ result[1] = RawList(<<RA, RB>>)
    /\ waited[1] = 0

(***************************************************************************)
(* C24: the delay is taken between fetches only.  A run is in the delay     *)
(* only when another fetch follows it (the bound is "max" or more pages     *)
(* than were requested so far), and a run that has returned has not waited  *)
(* since its last response arrived.                                         *)
(***************************************************************************)
C24_DelayOnlyBetweenFetches ==
    \A s \in Sessions :
        /\ pc[s] = "sleeping" =>
            \/ IsMax(args[s].pages)
            \/ Len(requests[s]) < ToNumber(args[s].pages).n
        /\ Done(s) => waited[s] = 0
====
